---- MODULE Spec2Model ----
(***************************************************************************)
(* Model of mass_data_gen.py: parsing of NIST isotope blocks into isotope  *)
(* objects, folding them into the module-level `elements` mapping,         *)
(* finalization of atomic_weight and the JSON export.                      *)
(*                                                                         *)
(* Text is modelled at character level: a line is a sequence of one-       *)
(* character strings, a block a sequence of lines.  Floats are modelled as *)
(* decimal fixed point numbers: a parsed float is an integer count of      *)
(* 10^-6 (six fractional digits, one more than round(x, 5) keeps), a       *)
(* product of two of them a count of 10^-12.  The interpreter is the one   *)
(* the module docstring was produced with (Python 2: map() returns a list, *)
(* dict iteration order is arbitrary).                                     *)
(***************************************************************************)
EXTENDS Integers, Sequences, FiniteSets, TLC

VARIABLES elements, pc, pending, err, file, written, folded, rejected, runs, blocksRead

vars == <<elements, pc, pending, err, file, written, folded, rejected, runs, blocksRead>>

(* ------------------------------ bounds --------------------------------- *)
MaxBlocks == 3
MaxRuns == 2

(* --------------------------- string helpers ---------------------------- *)
Digits == <<"0", "1", "2", "3", "4", "5", "6", "7", "8", "9">>

IsDigit(c) == \E i \in 1..10 : Digits[i] = c

DigitVal(c) == (CHOOSE i \in 1..10 : Digits[i] = c) - 1

IsSpace(c) == c \in {" ", "\t"}

Tail2(s, n) == SubSeq(s, n, Len(s))

\* index of the first occurrence of c in s, 0 when there is none
IndexOf(s, c) ==
    IF \E i \in 1..Len(s) : s[i] = c
    THEN CHOOSE i \in 1..Len(s) : s[i] = c /\ \A j \in 1..(i-1) : s[j] # c
    ELSE 0

\* str.split(c): the list of the segments between the occurrences of c
RECURSIVE Split(_, _)
Split(s, c) ==
    IF IndexOf(s, c) = 0
    THEN <<s>>
    ELSE <<SubSeq(s, 1, IndexOf(s, c) - 1)>> \o Split(Tail2(s, IndexOf(s, c) + 1), c)

\* str.strip(): leading and trailing whitespace removed
RECURSIVE LStrip(_)
LStrip(s) == IF s # <<>> /\ IsSpace(s[1]) THEN LStrip(Tail(s)) ELSE s

RECURSIVE RStrip(_)
RStrip(s) == IF s # <<>> /\ IsSpace(s[Len(s)]) THEN RStrip(SubSeq(s, 1, Len(s) - 1)) ELSE s

Strip(s) == RStrip(LStrip(s))

\* value of a run of digits
RECURSIVE DigitsVal(_)
DigitsVal(s) == IF s = <<>> THEN 0 ELSE DigitsVal(SubSeq(s, 1, Len(s) - 1)) * 10 + DigitVal(s[Len(s)])

AllDigits(s) == \A i \in 1..Len(s) : IsDigit(s[i])

Unsigned(s) == IF s # <<>> /\ s[1] \in {"-", "+"} THEN Tail(s) ELSE s

Sign(s) == IF s # <<>> /\ s[1] = "-" THEN -1 ELSE 1

\* int(x): an optionally signed, non-empty run of digits
IsInt(s) == Unsigned(s) # <<>> /\ AllDigits(Unsigned(s))

IntVal(s) == Sign(s) * DigitsVal(Unsigned(s))

\* float(x) on plain decimal literals: [sign] digits [. digits], one digit at least
IntPart(s) == IF IndexOf(s, ".") = 0 THEN s ELSE SubSeq(s, 1, IndexOf(s, ".") - 1)

FracPart(s) == IF IndexOf(s, ".") = 0 THEN <<>> ELSE Tail2(s, IndexOf(s, ".") + 1)

IsFloat(s) ==
    /\ AllDigits(IntPart(Unsigned(s)))
    /\ AllDigits(FracPart(Unsigned(s)))
    /\ Len(IntPart(Unsigned(s))) + Len(FracPart(Unsigned(s))) > 0

\* 1.0 as a count of 10^-6
One == 1000000

\* the first six fractional digits, zero padded
Pad6(s) == SubSeq(s \o <<"0", "0", "0", "0", "0", "0">>, 1, 6)

\* the parsed float as a count of 10^-6
FloatVal(s) == Sign(s) * (DigitsVal(IntPart(Unsigned(s))) * One + DigitsVal(Pad6(FracPart(Unsigned(s)))))

Abs(x) == IF x < 0 THEN -x ELSE x

\* round(x, 5) of a count of 10^-6, still as a count of 10^-6
Round5(x) == IF x >= 0 THEN ((x + 5) \div 10) * 10 ELSE -((((-x) + 5) \div 10) * 10)

(* ------------------------------ parser --------------------------------- *)
isotope_data_fields == <<"atomic_num", "symbol", "mass_num", "mass", "abundance", "std_atomic_weight">>

\* line 42: isotope_data[i].split('=')[1].strip().split('(')[0]
RawVal(line) == Split(Strip(Split(line, "=")[2]), "(")[1]

\* isotope_data_map: does the coercion of field i accept the text v
Coercible(i, v) ==
    CASE i = 1 -> IsInt(v)
      [] i = 2 -> TRUE
      [] i = 3 -> IsInt(v)
      [] i = 4 -> IsFloat(v)
      [] i = 5 -> v = <<>> \/ IsFloat(v)
      [] i = 6 -> TRUE

\* variant: a block must have exactly six lines
FieldErrorStrict(isotope_data, i) ==
    IF Len(isotope_data) # 6 THEN "IndexError"
    ELSE IF Len(Split(isotope_data[i], "=")) < 2 THEN "IndexError"
    ELSE IF ~Coercible(i, RawVal(isotope_data[i])) THEN "ValueError"
    ELSE "none"

\* the exception field i of the block raises, "none" when it is set
FieldError(isotope_data, i) ==
    IF Len(isotope_data) < i THEN "IndexError"
    ELSE IF Len(Split(isotope_data[i], "=")) < 2 THEN "IndexError"
    ELSE IF ~Coercible(i, RawVal(isotope_data[i])) THEN "ValueError"
    ELSE "none"

\* the first exception raised by the loop of isotope.__init__
ParseError(isotope_data) ==
    IF \A i \in 1..Len(isotope_data_fields) : FieldError(isotope_data, i) = "none"
    THEN "none"
    ELSE FieldError(isotope_data,
            CHOOSE i \in 1..Len(isotope_data_fields) :
                /\ FieldError(isotope_data, i) # "none"
                /\ \A j \in 1..(i-1) : FieldError(isotope_data, j) = "none")

\* `x in 'TD'`: substring test of str
InTD(sym) == sym \in {<<>>, <<"T">>, <<"D">>, <<"T", "D">>}

Normalize(sym) == IF InTD(sym) THEN <<"H">> ELSE sym

\* the symbol as written in the block
SourceSymbol(isotope_data) == RawVal(isotope_data[2])

\* the isotope object; abundance is <<>> for None, <<v>> for the float v
Isotope(isotope_data) ==
    [ atomic_num        |-> IntVal(RawVal(isotope_data[1])),
      symbol            |-> Normalize(RawVal(isotope_data[2])),
      mass_num          |-> IntVal(RawVal(isotope_data[3])),
      mass              |-> FloatVal(RawVal(isotope_data[4])),
      abundance         |-> IF RawVal(isotope_data[5]) = <<>> THEN <<>>
                            ELSE <<FloatVal(RawVal(isotope_data[5]))>>,
      std_atomic_weight |-> RawVal(isotope_data[6]) ]

(* ------------------------------ element -------------------------------- *)
NoAttr == [kind |-> "unset", val |-> 0, exp |-> 0]

Unknown == [kind |-> "Unknown", val |-> 0, exp |-> 0]

Float(v, e) == [kind |-> "float", val |-> v, exp |-> e]

\* `if isotope_obj.abundance:` truth value of None or a float
Truthy(abundance) == abundance # <<>> /\ abundance[1] # 0

add_mass(el, isotope_obj) ==
    [ el EXCEPT
        !.isotopes   = Append(@, isotope_obj),
        !.abundances = IF Truthy(isotope_obj.abundance)
                       THEN Append(@, Round5(isotope_obj.abundance[1])) ELSE @,
        !.masses     = IF Truthy(isotope_obj.abundance)
                       THEN Append(@, Round5(isotope_obj.mass)) ELSE @ ]

element(isotope_obj) ==
    add_mass([ atomic_num        |-> isotope_obj.atomic_num,
               symbol            |-> isotope_obj.symbol,
               std_atomic_weight |-> isotope_obj.std_atomic_weight,
               masses            |-> <<>>,
               abundances        |-> <<>>,
               isotopes          |-> <<>>,
               atomic_weight     |-> NoAttr ], isotope_obj)

\* lines 71-74 of process
FoldInto(els, isotope_obj) ==
    IF isotope_obj.symbol \notin DOMAIN els
    THEN [k \in DOMAIN els \cup {isotope_obj.symbol} |->
            IF k = isotope_obj.symbol THEN element(isotope_obj) ELSE els[k]]
    ELSE [els EXCEPT ![isotope_obj.symbol] = add_mass(@, isotope_obj)]

(* ---------------------------- finalization ----------------------------- *)
\* sum( np.array(masses) * np.array(abundances) ), a count of 10^-12
RECURSIVE WeightedSum(_, _)
WeightedSum(masses, abundances) ==
    IF masses = <<>> \/ abundances = <<>> THEN 0
    ELSE masses[1] * abundances[1] + WeightedSum(Tail(masses), Tail(abundances))

IsBracket(c) == c \in {"[", "]"}

\* re.sub('\[|\]', '', s)
StripBrackets(s) == SelectSeq(s, LAMBDA c : ~IsBracket(c))

iso_masses(el) == [i \in 1..Len(el.isotopes) |-> el.isotopes[i].mass]

\* float(mass_num_weight) raises ValueError
FallbackRaises(el) ==
    /\ StripBrackets(el.std_atomic_weight) # <<>>
    /\ ~IsFloat(StripBrackets(el.std_atomic_weight))

\* abs( float(mass_num_weight) - x ) if mass_num_weight else x
MassDiff(mass_num_weight, x) ==
    IF mass_num_weight # <<>> THEN Abs(FloatVal(mass_num_weight) - x) ELSE x

mass_diff_map(el) ==
    [i \in 1..Len(el.isotopes) |-> MassDiff(StripBrackets(el.std_atomic_weight), iso_masses(el)[i])]

\* variant: the tuples are ordered by their difference alone
DiffLess(p, q) == p[1] < q[1]

\* order of the (difference, mass) tuples under sorted()
TupleLess(p, q) == p[1] < q[1] \/ (p[1] = q[1] /\ p[2] < q[2])

RECURSIVE Insert(_, _)
Insert(sorted, p) ==
    IF sorted = <<>> THEN <<p>>
    ELSE IF TupleLess(p, sorted[1]) THEN <<p>> \o sorted
    ELSE <<sorted[1]>> \o Insert(Tail(sorted), p)

RECURSIVE Sorted(_)
Sorted(pairs) ==
    IF pairs = <<>> THEN <<>>
    ELSE Insert(Sorted(SubSeq(pairs, 1, Len(pairs) - 1)), pairs[Len(pairs)])

Zip(xs, ys) == [i \in 1..Len(xs) |-> <<xs[i], ys[i]>>]

\* [x for y,x in sorted(zip( mass_diff_map, iso_masses ))]
sorted_mass_map(el) ==
    [i \in 1..Len(el.isotopes) |-> Sorted(Zip(mass_diff_map(el), iso_masses(el)))[i][2]]

\* variant: x <= 1.
AtMostOne(x) == x <= One

\* x < 1.
BelowOne(x) == x < One

\* lines 85-90: the value assigned to atomic_weight when abundances is empty
FallbackWeight(el) ==
    IF \E i \in 1..Len(el.isotopes) : BelowOne(mass_diff_map(el)[i])
    THEN Float(sorted_mass_map(el)[1], 6)
    ELSE Unknown

RECURSIVE Total(_)
Total(xs) == IF xs = <<>> THEN 0 ELSE xs[1] + Total(Tail(xs))

\* variant: the weighted sum is divided by the sum of the abundances
AtomicWeightNormalized(el) ==
    IF el.abundances # <<>>
    THEN Float(WeightedSum(el.masses, el.abundances) \div Total(el.abundances), 6)
    ELSE FallbackWeight(el)

\* lines 79-90: the value assigned to atomic_weight
AtomicWeight(el) ==
    IF el.abundances # <<>>
    THEN Float(WeightedSum(el.masses, el.abundances), 12)
    ELSE FallbackWeight(el)

\* does the body of the finalization loop raise for this element
FinalizeRaises(el) == el.abundances = <<>> /\ FallbackRaises(el)

(* -------------------------------- export ------------------------------- *)
NoFile == <<>>

\* el_json of write_json: every attribute but 'isotopes'
Exported(el) ==
    [ atomic_num        |-> el.atomic_num,
      symbol            |-> el.symbol,
      std_atomic_weight |-> el.std_atomic_weight,
      masses            |-> el.masses,
      abundances        |-> el.abundances,
      atomic_weight     |-> el.atomic_weight ]

Serialize(els) == <<[k \in DOMAIN els |-> Exported(els[k])]>>

(* ------------------------------- input --------------------------------- *)
\* a `label = value` line of the data file
Line(label, value) == label \o <<" ", "=", " ">> \o value

\* protium: mass and abundance that round(x, 5) changes
B_H1 ==
    << Line(<<"Z">>, <<"1">>),
       Line(<<"S", "y", "m">>, <<"H">>),
       Line(<<"A">>, <<"1">>),
       Line(<<"M", "a", "s", "s">>, <<"1", ".", "0", "0", "0", "0", "0", "4", "(", "9", ")">>),
       Line(<<"C", "o", "m", "p">>, <<"0", ".", "0", "0", "0", "0", "1", "5", "(", "7", ")">>),
       Line(<<"S", "t", "d">>, <<"[", "1", ".", "0", "0", "7", "8", "4", ",", "1", ".", "0", "0", "8", "1", "1", "]">>) >>

\* deuterium with an abundance, followed by a seventh line
B_D ==
    << Line(<<"Z">>, <<"1">>),
       Line(<<"S", "y", "m">>, <<"D">>),
       Line(<<"A">>, <<"2">>),
       Line(<<"M", "a", "s", "s">>, <<"2", ".", "0", "1", "4", "1">>),
       Line(<<"C", "o", "m", "p">>, <<"0", ".", "0", "0", "0", "0", "3">>),
       Line(<<"S", "t", "d">>, <<"[", "1", ".", "0", "0", "7", "8", "4", ",", "1", ".", "0", "0", "8", "1", "1", "]">>),
       Line(<<"N", "o", "t", "e", "s">>, <<"m">>) >>

\* deuterium with a supplied abundance of zero
B_D0 ==
    << Line(<<"Z">>, <<"1">>),
       Line(<<"S", "y", "m">>, <<"D">>),
       Line(<<"A">>, <<"2">>),
       Line(<<"M", "a", "s", "s">>, <<"2", ".", "0", "1", "4", "1">>),
       Line(<<"C", "o", "m", "p">>, <<"0">>),
       Line(<<"S", "t", "d">>, <<"[", "1", ".", "0", "0", "7", "8", "4", ",", "1", ".", "0", "0", "8", "1", "1", "]">>) >>

\* tritium: no abundance, a range as standard atomic weight
B_T ==
    << Line(<<"Z">>, <<"1">>),
       Line(<<"S", "y", "m">>, <<"T">>),
       Line(<<"A">>, <<"3">>),
       Line(<<"M", "a", "s", "s">>, <<"3", ".", "0", "1", "6">>),
       Line(<<"C", "o", "m", "p">>, <<" ">>),
       Line(<<"S", "t", "d">>, <<"[", "1", ".", "0", "0", "7", "8", "4", ",", "1", ".", "0", "0", "8", "1", "1", "]">>) >>

\* a two letter symbol made of the letters T and D
B_TD ==
    << Line(<<"Z">>, <<"9">>),
       Line(<<"S", "y", "m">>, <<"T", "D">>),
       Line(<<"A">>, <<"7">>),
       Line(<<"M", "a", "s", "s">>, <<"3">>),
       Line(<<"C", "o", "m", "p">>, <<>>),
       Line(<<"S", "t", "d">>, <<>>) >>

\* three isotopes without abundance, reference 209
B_Po1 ==
    << Line(<<"Z">>, <<"8", "4">>),
       Line(<<"S", "y", "m">>, <<"P", "o">>),
       Line(<<"A">>, <<"2", "0", "9">>),
       Line(<<"M", "a", "s", "s">>, <<"2", "0", "9", ".", "5">>),
       Line(<<"C", "o", "m", "p">>, <<>>),
       Line(<<"S", "t", "d">>, <<"[", "2", "0", "9", "]">>) >>

B_Po2 ==
    << Line(<<"Z">>, <<"8", "4">>),
       Line(<<"S", "y", "m">>, <<"P", "o">>),
       Line(<<"A">>, <<"2", "0", "8">>),
       Line(<<"M", "a", "s", "s">>, <<"2", "0", "8", ".", "5">>),
       Line(<<"C", "o", "m", "p">>, <<>>),
       Line(<<"S", "t", "d">>, <<"[", "2", "0", "9", "]">>) >>

B_Po3 ==
    << Line(<<"Z">>, <<"8", "4">>),
       Line(<<"S", "y", "m">>, <<"P", "o">>),
       Line(<<"A">>, <<"2", "1", "0">>),
       Line(<<"M", "a", "s", "s">>, <<"2", "1", "0">>),
       Line(<<"C", "o", "m", "p">>, <<>>),
       Line(<<"S", "t", "d">>, <<"[", "2", "0", "9", "]">>) >>

\* no abundance, no standard atomic weight
B_X1 ==
    << Line(<<"Z">>, <<"7">>),
       Line(<<"S", "y", "m">>, <<"X">>),
       Line(<<"A">>, <<"1">>),
       Line(<<"M", "a", "s", "s">>, <<"0", ".", "5">>),
       Line(<<"C", "o", "m", "p">>, <<>>),
       Line(<<"S", "t", "d">>, <<>>) >>

B_X2 ==
    << Line(<<"Z">>, <<"7">>),
       Line(<<"S", "y", "m">>, <<"X">>),
       Line(<<"A">>, <<"3">>),
       Line(<<"M", "a", "s", "s">>, <<"3">>),
       Line(<<"C", "o", "m", "p">>, <<>>),
       Line(<<"S", "t", "d">>, <<>>) >>

\* six lines whose labels are not in schema order
B_Swapped ==
    << Line(<<"A">>, <<"4">>),
       Line(<<"S", "y", "m">>, <<"H", "e">>),
       Line(<<"Z">>, <<"2">>),
       Line(<<"M", "a", "s", "s">>, <<"4", ".", "0", "0", "2", "6">>),
       Line(<<"C", "o", "m", "p">>, <<"0", ".", "0", "0", "0", "0", "2">>),
       Line(<<"S", "t", "d">>, <<"4", ".", "0", "0", "2", "6">>) >>

\* the only block of an empty file: one empty line
B_Empty == << <<>> >>

\* five lines
B_Short ==
    << Line(<<"Z">>, <<"3">>),
       Line(<<"S", "y", "m">>, <<"L", "i">>),
       Line(<<"A">>, <<"6">>),
       Line(<<"M", "a", "s", "s">>, <<"6", ".", "0", "1", "5">>),
       Line(<<"C", "o", "m", "p">>, <<"0", ".", "0", "0", "0", "0", "8">>) >>

\* a line without the separator
B_NoEq ==
    << Line(<<"Z">>, <<"3">>),
       <<"S", "y", "m", " ", "L", "i">> >>

\* an atomic number that is not an integer
B_BadInt ==
    << Line(<<"Z">>, <<"x">>),
       Line(<<"S", "y", "m">>, <<"L", "i">>),
       Line(<<"A">>, <<"6">>),
       Line(<<"M", "a", "s", "s">>, <<"6", ".", "0", "1", "5">>),
       Line(<<"C", "o", "m", "p">>, <<"0", ".", "0", "0", "0", "0", "8">>),
       Line(<<"S", "t", "d">>, <<"6", ".", "9", "4">>) >>

\* the blocks the data file is made of
Blocks ==
    { B_H1, B_D, B_D0, B_T, B_TD, B_Po1, B_Po2, B_Po3,
      B_X1, B_X2, B_Swapped, B_Empty, B_Short, B_NoEq, B_BadInt }

(* ------------------------------ behaviour ------------------------------ *)
\* isotope( isotope_data ) for each block of the file: the exception it raises
Raised == [b \in Blocks |-> ParseError(b)]

\* isotope( isotope_data ) for each block of the file that parses: the object
Parsed == [b \in {x \in Blocks : ParseError(x) = "none"} |-> Isotope(b)]

Init ==
    /\ elements = <<>>
    /\ pc = "idle"
    /\ pending = {}
    /\ err = "none"
    /\ file = NoFile
    /\ written = FALSE
    /\ folded = <<>>
    /\ rejected = <<>>
    /\ runs = 0
    /\ blocksRead = 0

\* main() is called (again, in the same interpreter)
Call ==
    /\ pc \in {"idle", "done", "aborted"}
    /\ runs < MaxRuns
    /\ blocksRead < MaxBlocks
    /\ pc' = "fold"
    /\ runs' = runs + 1
    /\ err' = "none"
    /\ written' = FALSE
    /\ folded' = <<>>
    /\ rejected' = <<>>
    /\ pending' = {}
    /\ UNCHANGED <<elements, file, blocksRead>>

\* one iteration of the first loop of process(): the block parses and is folded
Fold(b) ==
    /\ pc = "fold"
    /\ blocksRead < MaxBlocks
    /\ Raised[b] = "none"
    /\ elements' = FoldInto(elements, Parsed[b])
    /\ folded' = Append(folded, [block |-> b, iso |-> Parsed[b]])
    /\ blocksRead' = blocksRead + 1
    /\ UNCHANGED <<pc, pending, err, file, written, rejected, runs>>

\* one iteration of the first loop of process(): isotope() raises
Reject(b) ==
    /\ pc = "fold"
    /\ blocksRead < MaxBlocks
    /\ Raised[b] # "none"
    /\ pc' = "aborted"
    /\ err' = Raised[b]
    /\ rejected' = <<b>>
    /\ blocksRead' = blocksRead + 1
    /\ UNCHANGED <<elements, pending, file, written, folded, runs>>

\* the first loop of process() ends: the file holds one block at least
EndOfInput ==
    /\ pc = "fold"
    /\ folded # <<>>
    /\ pc' = "finalize"
    /\ pending' = DOMAIN elements
    /\ UNCHANGED <<elements, err, file, written, folded, rejected, runs, blocksRead>>

\* one iteration of the second loop of process(), in dict order
Finalize(k) ==
    /\ pc = "finalize"
    /\ k \in pending
    /\ ~FinalizeRaises(elements[k])
    /\ elements' = [elements EXCEPT ![k].atomic_weight = AtomicWeight(elements[k])]
    /\ pending' = pending \ {k}
    /\ UNCHANGED <<pc, err, file, written, folded, rejected, runs, blocksRead>>

\* one iteration of the second loop of process(): float() raises
FinalizeFails(k) ==
    /\ pc = "finalize"
    /\ k \in pending
    /\ FinalizeRaises(elements[k])
    /\ pc' = "aborted"
    /\ err' = "ValueError"
    /\ UNCHANGED <<elements, pending, file, written, folded, rejected, runs, blocksRead>>

\* variant: the export does not wait for the end of the second loop
CanWriteEarly == pc = "finalize"

\* process() has returned
CanWrite == pc = "finalize" /\ pending = {}

\* write_json( elements ) and the return of main()
WriteJson ==
    /\ CanWrite
    /\ file' = Serialize(elements)
    /\ written' = TRUE
    /\ pc' = "done"
    /\ UNCHANGED <<elements, pending, err, folded, rejected, runs, blocksRead>>

Next ==
    \/ Call
    \/ \E b \in Blocks : Fold(b)
    \/ \E b \in Blocks : Reject(b)
    \/ EndOfInput
    \/ \E k \in pending : Finalize(k)
    \/ \E k \in pending : FinalizeFails(k)
    \/ WriteJson

Spec == Init /\ [][Next]_vars

(* ------------------------------ properties ----------------------------- *)
\* the second loop of process() has assigned atomic_weight of elements[k] in this call
Finalized(k) ==
    /\ k \in DOMAIN elements
    /\ (pc = "done" \/ (pc = "finalize" /\ k \notin pending))

Reference(el) == StripBrackets(el.std_atomic_weight)

\* the d_i of the isotopes: |mass_i - reference|, mass_i itself when the
\* reference is empty
Differences(el) ==
    LET ref == IF Reference(el) = <<>> THEN 0 ELSE FloatVal(Reference(el))
    IN  [i \in 1..Len(el.isotopes) |->
            IF Reference(el) = <<>> THEN el.isotopes[i].mass
            ELSE Abs(el.isotopes[i].mass - ref)]

\* d[i] is the smallest of the differences d
IsClosest(d, i) == \A j \in 1..Len(d) : d[i] <= d[j]

\* C1: an element finalized with no abundances gets, when its smallest difference
\* d_i is below 1.0, the mass of an isotope whose d_i is that minimum, and the
\* string "Unknown" otherwise.
C1_FallbackClosestMass ==
    \A k \in DOMAIN elements :
        (Finalized(k) /\ elements[k].abundances = <<>>) =>
            LET d == Differences(elements[k])
            IN  IF \E i \in 1..Len(d) : d[i] < One
                THEN /\ elements[k].atomic_weight.kind = "float"
                     /\ elements[k].atomic_weight.exp = 6
                     /\ \E i \in 1..Len(d) :
                            /\ IsClosest(d, i)
                            /\ elements[k].isotopes[i].mass = elements[k].atomic_weight.val
                ELSE elements[k].atomic_weight = Unknown

\* C1 witness: a fallback picked one of several isotopes, and another element
\* whose closest isotope is exactly 1.0 away or farther is "Unknown"
C1_Witness ==
    /\ \E k \in DOMAIN elements :
        /\ Finalized(k)
        /\ elements[k].abundances = <<>>
        /\ elements[k].atomic_weight.kind = "float"
        /\ \E i \in 1..Len(elements[k].isotopes) :
              elements[k].isotopes[i].mass # elements[k].atomic_weight.val
    /\ \E k \in DOMAIN elements :
        /\ Finalized(k)
        /\ elements[k].abundances = <<>>
        /\ elements[k].atomic_weight = Unknown

RECURSIVE SumOver(_, _)
SumOver(f, S) ==
    IF S = {} THEN 0
    ELSE LET i == CHOOSE x \in S : TRUE IN f[i] + SumOver(f, S \ {i})

\* C2: an element finalized with abundances gets the plain sum of
\* masses[i] * abundances[i] over the stored pairs, which are the rounded values
\* of its isotopes with a non-zero abundance; the fallback is not used.
C2_WeightedSum ==
    \A k \in DOMAIN elements :
        (Finalized(k) /\ elements[k].abundances # <<>>) =>
            /\ elements[k].atomic_weight.kind = "float"
            /\ elements[k].atomic_weight.exp = 12
            /\ elements[k].atomic_weight.val =
                  SumOver([i \in 1..Len(elements[k].abundances) |->
                              elements[k].masses[i] * elements[k].abundances[i]],
                          1..Len(elements[k].abundances))
            /\ \A i \in 1..Len(elements[k].masses) : elements[k].masses[i] % 10 = 0
            /\ \A i \in 1..Len(elements[k].abundances) : elements[k].abundances[i] % 10 = 0

\* C2 witness: two pairs were summed, one of them changed by the rounding
C2_Witness ==
    \E k \in DOMAIN elements :
        /\ Finalized(k)
        /\ Len(elements[k].abundances) >= 2
        /\ \E i \in 1..Len(elements[k].isotopes) :
              /\ elements[k].isotopes[i].abundance # <<>>
              /\ elements[k].isotopes[i].mass % 10 # 0

\* number of isotopes of the element whose abundance field was supplied
Supplied(el) == Cardinality({i \in 1..Len(el.isotopes) : el.isotopes[i].abundance # <<>>})

\* C3: masses and abundances have the same length, the number of folded records
\* of the symbol whose abundance was supplied, a supplied zero included.
C3_LengthsCountSupplied ==
    \A k \in DOMAIN elements :
        /\ Len(elements[k].masses) = Len(elements[k].abundances)
        /\ Len(elements[k].abundances) = Supplied(elements[k])

\* C4: a record written T or D is filed under H, the keys T and D never appear,
\* and a record with any other symbol is filed under its own symbol.
C4_SymbolFiling ==
    /\ <<"T">> \notin DOMAIN elements
    /\ <<"D">> \notin DOMAIN elements
    /\ \A i \in 1..Len(folded) :
        /\ folded[i].iso.symbol \in DOMAIN elements
        /\ IF SourceSymbol(folded[i].block) \in {<<"T">>, <<"D">>}
           THEN folded[i].iso.symbol = <<"H">>
           ELSE folded[i].iso.symbol = SourceSymbol(folded[i].block)

\* C5: the aggregation never raises: a call is only ever aborted by a block
\* that fails to parse.
C5_AggregationNeverRaises ==
    pc = "aborted" => rejected # <<>>

\* the loop of the finalization has reached elements[k] in this call
Reached(k) ==
    \/ Finalized(k)
    \/ (pc = "aborted" /\ rejected = <<>> /\ k \in pending /\ FinalizeRaises(elements[k]))

\* C6: an element with no abundant isotope whose standard atomic weight is empty
\* or not a number gets atomic_weight "Unknown", whatever its isotope masses.
C6_NoReferenceUnknown ==
    \A k \in DOMAIN elements :
        ( /\ Reached(k)
          /\ elements[k].abundances = <<>>
          /\ (Reference(elements[k]) = <<>> \/ ~IsFloat(Reference(elements[k]))) )
        => elements[k].atomic_weight = Unknown

\* C7: elements.json is written only once every block is folded and every
\* element finalized, and a call that raises does not write it.
C7_WrittenInv ==
    /\ written =>
        /\ pc = "done"
        /\ err = "none"
        /\ rejected = <<>>
        /\ pending = {}
        /\ \A k \in DOMAIN elements : elements[k].atomic_weight # NoAttr
        /\ file = Serialize(elements)
    /\ pc = "aborted" => ~written

C7_NoPartialWrite ==
    /\ []C7_WrittenInv
    /\ [][file' # file => (pc = "finalize" /\ pending = {} /\ err = "none" /\ pc' = "done")]_vars

\* C7 witness: a call aborted by a block that follows a folded one, without a write
C7_Witness ==
    /\ pc = "aborted"
    /\ folded # <<>>
    /\ rejected # <<>>
    /\ ~written

\* the labels of the six fields, in schema order
ExpectedLabels ==
    << <<"Z">>, <<"S", "y", "m">>, <<"A">>, <<"M", "a", "s", "s">>,
       <<"C", "o", "m", "p">>, <<"S", "t", "d">> >>

LabelOf(line) == Strip(Split(line, "=")[1])

\* exactly the six labelled fields, in order
WellFormed(block) ==
    /\ Len(block) = 6
    /\ \A i \in 1..6 : IndexOf(block[i], "=") # 0 /\ LabelOf(block[i]) = ExpectedLabels[i]

\* C8 as stated: only blocks of exactly the six labelled fields in schema order
\* yield an isotope record.
C8_OnlyWellFormedFolded ==
    \A i \in 1..Len(folded) : WellFormed(folded[i].block)

\* the blocks isotope() accepts: six lines at least, a separator in each of the
\* first six, integers in lines 1 and 3, a float in line 4, nothing or a float in line 5
Accepted(block) ==
    /\ Len(block) >= 6
    /\ \A i \in 1..6 : IndexOf(block[i], "=") # 0
    /\ IsInt(RawVal(block[1]))
    /\ IsInt(RawVal(block[3]))
    /\ IsFloat(RawVal(block[4]))
    /\ (RawVal(block[5]) = <<>> \/ IsFloat(RawVal(block[5])))

AcceptedBlocks == {b \in Blocks : Accepted(b)}

C8_FoldedInv ==
    /\ \A i \in 1..Len(folded) : folded[i].block \in AcceptedBlocks
    /\ rejected # <<>> => (rejected[1] \notin AcceptedBlocks /\ pc = "aborted" /\ err # "none")

\* C8 amended: a block is rejected exactly when it has fewer than six lines, one
\* of its first six lines has no '=', or a coercion fails; labels and lines after
\* the sixth are ignored; a rejected block changes nothing in the mapping.
C8_RejectedBlocks ==
    /\ []C8_FoldedInv
    /\ [][rejected' # rejected /\ rejected' # <<>> => (elements' = elements /\ folded' = folded)]_vars

\* C8 witness: a seven line block and a block with swapped labels were folded,
\* then a short block was rejected
C8_Witness ==
    /\ \E i \in 1..Len(folded) : Len(folded[i].block) > 6
    /\ \E i \in 1..Len(folded) : Len(folded[i].block) = 6 /\ ~WellFormed(folded[i].block)
    /\ rejected # <<>>
    /\ Len(rejected[1]) < 6

\* the isotopes of this call's input filed under k, in input order
RECURSIVE IsotopesOf(_, _)
IsotopesOf(fs, k) ==
    IF fs = <<>> THEN <<>>
    ELSE (IF fs[1].iso.symbol = k THEN <<fs[1].iso>> ELSE <<>>) \o IsotopesOf(Tail(fs), k)

\* C9: the mapping a call returns holds exactly the isotopes of that call's input.
C9_FreshMappingPerRun ==
    pc = "done" =>
        /\ DOMAIN elements = {folded[i].iso.symbol : i \in 1..Len(folded)}
        /\ \A k \in DOMAIN elements : elements[k].isotopes = IsotopesOf(folded, k)

\* the closest-mass inference chose among several isotopes at the minimum difference
Tied(el) ==
    /\ el.abundances = <<>>
    /\ el.atomic_weight.kind = "float"
    /\ LET d == Differences(el)
       IN  \E i, j \in 1..Len(d) :
              /\ IsClosest(d, i) /\ IsClosest(d, j)
              /\ el.isotopes[i].mass # el.isotopes[j].mass

FirstClosest(el) ==
    LET d == Differences(el)
    IN  CHOOSE i \in 1..Len(d) : IsClosest(d, i) /\ \A j \in 1..(i-1) : ~IsClosest(d, j)

\* C10 as stated: among isotopes tied at the minimum difference the one that
\* occurs first in the isotopes list gives atomic_weight.
C10_FirstOccurrenceWins ==
    \A k \in DOMAIN elements :
        (Finalized(k) /\ Tied(elements[k])) =>
            elements[k].atomic_weight.val = elements[k].isotopes[FirstClosest(elements[k])].mass

\* C10 amended: among isotopes tied at the minimum difference (below 1.0) the
\* smallest mass gives atomic_weight, wherever it occurs in the isotopes list.
C10_SmallestTiedMassWins ==
    \A k \in DOMAIN elements :
        (Finalized(k) /\ Tied(elements[k])) =>
            LET d == Differences(elements[k])
            IN  /\ \E i \in 1..Len(d) :
                      IsClosest(d, i) /\ elements[k].isotopes[i].mass = elements[k].atomic_weight.val
                /\ \A i \in 1..Len(d) :
                      IsClosest(d, i) => elements[k].atomic_weight.val <= elements[k].isotopes[i].mass

\* C10 witness: a tie whose first occurrence is the larger mass
C10_Witness ==
    \E k \in DOMAIN elements :
        /\ Finalized(k)
        /\ Tied(elements[k])
        /\ elements[k].isotopes[FirstClosest(elements[k])].mass > elements[k].atomic_weight.val

====
